---- MODULE Spec2Model ----
(***************************************************************************)
(* Model of payout.py: the projection engine simulate(), the scenario      *)
(* parser parse_pairs() and the module-level script that parses the three  *)
(* scenario texts and runs the three simulations.                          *)
(*                                                                         *)
(* Python floats are modelled as exact rationals <<n, d>> with d > 0 in    *)
(* lowest terms; the IEEE results of a division by zero are <<1, 0>>       *)
(* (inf), <<-1, 0>> (-inf) and <<0, 0>> (nan).  A dict is the sequence of  *)
(* its <<key, value>> pairs in insertion order, keys pairwise distinct.    *)
(* A DataFrame is the sequence of its rows in index order, each row a     *)
(* record of its columns.  A scenario text is the sequence of the items   *)
(* s.split(",") yields, each item the sequence of the fields              *)
(* item.split(":") yields, each field a token [isint, val].               *)
(***************************************************************************)
EXTENDS Integers, Sequences, FiniteSets, TLC

\* ------------------------------------------------------------------ bounds
MaxYear == 3

MaxUsers == 1

\* ------------------------------------------------------- float arithmetic
Abs(x) == IF x < 0 THEN -x ELSE x

Sgn(x) == IF x < 0 THEN -1 ELSE IF x > 0 THEN 1 ELSE 0

RECURSIVE Gcd(_, _)
Gcd(a, b) == IF b = 0 THEN a ELSE Gcd(b, a % b)

Norm(n, d) == LET g == Gcd(Abs(n), d) IN <<n \div g, d \div g>>

Rat(n) == <<n, 1>>

IsFinite(a) == a[2] # 0

RAdd(a, b) == Norm(a[1] * b[2] + b[1] * a[2], a[2] * b[2])

RMul(a, b) ==
    IF IsFinite(a) /\ IsFinite(b)
    THEN Norm(a[1] * b[1], a[2] * b[2])
    ELSE <<Sgn(a[1]) * Sgn(b[1]), 0>>

RLeq(a, b) == a[1] * b[2] <= b[1] * a[2]

\* Series / scalar: numpy true division, x / 0.0 is inf, -inf or nan
FDiv(a, b) ==
    IF b[1] = 0
    THEN <<Sgn(a[1]), 0>>
    ELSE Norm(a[1] * b[2] * Sgn(b[1]), a[2] * Abs(b[1]))

\* float // float for a positive divisor: the floor of the quotient
FloorDiv(a, b) == Rat((a[1] * b[2]) \div (a[2] * b[1]))

\* ---------------------------------------------------------------- dicts
Keys(d) == {d[i][1] : i \in 1..Len(d)}

Get(d, k) == LET i == CHOOSE j \in 1..Len(d) : d[j][1] = k IN d[i][2]

DictPut(d, k, v) ==
    IF k \in Keys(d)
    THEN [i \in 1..Len(d) |-> IF d[i][1] = k THEN <<k, v>> ELSE d[i]]
    ELSE Append(d, <<k, v>>)

DictEq(a, b) == {a[i] : i \in 1..Len(a)} = {b[i] : i \in 1..Len(b)}

\* --------------------------------------------------- module-level globals
MARKET_CAP_USD == 20490000

Prices == {<<1, 2>>, <<30000000, 1>>}

SharesOut(p) == FloorDiv(Rat(MARKET_CAP_USD), p)

\* ------------------------------------------------------------- simulate
Names == {"Conservative", "Base", "Aggressive"}

VARIABLES price, SHARES_OUT, price_monthly, device_revenue,
          valuation_multiple, retain_rate, vesting_dict,
          txt, acq, results, pc,
          acquisitions, df, active, cum_list, it, sim

params == <<price, SHARES_OUT, price_monthly, device_revenue,
            valuation_multiple, retain_rate, vesting_dict>>

script == <<txt, acq, results, pc>>

frame == <<acquisitions, df, active, cum_list, it>>

vars == <<params, script, frame, sim>>

Row(y, n) == [Year |-> y, new_users |-> n]

\* DataFrame.sort_index(): rows by ascending index (the index is unique)
RECURSIVE SortIndex(_)
SortIndex(rows) ==
    IF rows = <<>> THEN <<>>
    ELSE LET m == CHOOSE i \in 1..Len(rows) :
                    \A j \in 1..Len(rows) : rows[i].Year <= rows[j].Year
             rest == [j \in 1..(Len(rows) - 1) |->
                        IF j < m THEN rows[j] ELSE rows[j + 1]]
         IN <<rows[m]>> \o SortIndex(rest)

\* pd.DataFrame({...}).set_index("Year"): one row per dict entry
Frame(d) == [i \in 1..Len(d) |-> Row(d[i][1], d[i][2])]

WithOneTimeRev(rows, dev) ==
    [i \in 1..Len(rows) |->
        rows[i] @@ [one_time_rev |-> RMul(Rat(rows[i].new_users), dev)]]

\* the frame left in insertion order: .sort_index() omitted
BuildFrame_Unsorted(d) == Frame(d)

\* lines 21-28: the frame of the dict's entries, sorted by year
BuildFrame(d) == SortIndex(Frame(d))

\* the accumulator kept from the previous call instead of reset
ActiveAtEntry_Stale(prev) == prev

\* active = 0
ActiveAtEntry(prev) == Rat(0)

\* the list seeded with the accumulator: cum_list = [active]
CumListAtEntry_Seeded == <<Rat(0)>>

\* cum_list = []
CumListAtEntry == <<>>

\* the plain running total that the retention loop replaced
NextActive_Cumsum(new, act, rate) == RAdd(Rat(new), act)

\* the carried users dropped
NextActive_NoCarry(new, act, rate) == Rat(new)

\* the retained users subtracted instead of added
NextActive_Minus(new, act, rate) == RAdd(Rat(new), RMul(RMul(act, rate), Rat(-1)))

\* active = df.at[y, "new_users"] + active * retain_rate
NextActive(new, act, rate) == RAdd(Rat(new), RMul(act, rate))

\* df["arr"] = df["cum_users"] * price_monthly * 12
Arr(cum, pm) == RMul(RMul(cum, pm), Rat(12))

\* df["value_added"] = df["arr"] * valuation_multiple + df["one_time_rev"]
ValueAdded(arr, mult, otr) == RAdd(RMul(arr, mult), otr)

\* .fillna(0) omitted: a year without an entry maps to nan
VestedPct_NoFill(y, vest) == IF y \in Keys(vest) THEN Get(vest, y) ELSE <<0, 0>>

\* df.index.to_series().map(vesting_dict).fillna(0)
VestedPct(y, vest) == IF y \in Keys(vest) THEN Get(vest, y) ELSE Rat(0)

EquityValue(va, pct) == RMul(va, pct)

RECURSIVE PrefixSum(_, _)
PrefixSum(s, i) == IF i = 0 THEN Rat(0) ELSE RAdd(PrefixSum(s, i - 1), s[i])

\* .cumsum() omitted
CumSum_None(s) == s

\* Series.cumsum()
CumSum(s) == [i \in 1..Len(s) |-> PrefixSum(s, i)]

MarketCap(cva) == RAdd(Rat(MARKET_CAP_USD), cva)

SharePrice(mc, shares) == FDiv(mc, shares)

\* lines 42-53: every derived column of the table
Columns(rows, cum, pm, mult, vest, shares) ==
    LET n   == Len(rows)
        arr == [i \in 1..n |-> Arr(cum[i], pm)]
        va  == [i \in 1..n |-> ValueAdded(arr[i], mult, rows[i].one_time_rev)]
        pct == [i \in 1..n |-> VestedPct(rows[i].Year, vest)]
        cva == CumSum(va)
        mc  == [i \in 1..n |-> MarketCap(cva[i])]
    IN [i \in 1..n |->
          rows[i] @@ [cum_users       |-> cum[i],
                      arr             |-> arr[i],
                      value_added     |-> va[i],
                      vested_pct      |-> pct[i],
                      equity_value    |-> EquityValue(va[i], pct[i]),
                      cum_val_added   |-> cva[i],
                      market_cap_usd  |-> mc[i],
                      share_price_usd |-> SharePrice(mc[i], SHARES_OUT)]]

\* lines 21-34: build and sort the frame, one_time_rev, reset the accumulator
SimEnter ==
    /\ sim = "enter"
    /\ df' = WithOneTimeRev(BuildFrame(acquisitions), device_revenue)
    /\ active' = ActiveAtEntry(active)
    /\ cum_list' = CumListAtEntry
    /\ it' = 0
    /\ sim' = "loop"
    /\ UNCHANGED <<params, script, acquisitions>>

\* lines 36-39: one iteration of "for y in df.index"
SimLoop ==
    /\ sim = "loop"
    /\ it < Len(df)
    /\ active' = NextActive(df[it + 1].new_users, active, retain_rate)
    /\ cum_list' = Append(cum_list, active')
    /\ it' = it + 1
    /\ UNCHANGED <<params, script, acquisitions, df, sim>>

\* lines 42-55: assign cum_users (pandas raises ValueError when the list's
\* length differs from the index's), derive the columns, return the frame
SimColumns ==
    /\ sim = "loop"
    /\ it = Len(df)
    /\ IF Len(cum_list) = Len(df)
       THEN /\ df' = Columns(df, cum_list, price_monthly, valuation_multiple,
                             vesting_dict, SHARES_OUT)
            /\ sim' = "returned"
       ELSE /\ df' = df
            /\ sim' = "ValueError"
    /\ UNCHANGED <<params, script, acquisitions, active, cum_list, it>>

\* ------------------------------------------------- inputs of one call
Years == 1..MaxYear

Users == 0..MaxUsers

\* every dict[int, int] over Years and Users, in every insertion order
Schedules ==
    UNION {{d \in [1..k -> Years \X Users] :
               \A i, j \in 1..k : i # j => d[i][1] # d[j][1]} : k \in 0..MaxYear}

Rates == {<<-1, 2>>, <<0, 1>>, <<1, 2>>, <<1, 1>>, <<3, 2>>}

\* <<price_monthly, device_revenue, valuation_multiple>>
Pricings == {<<Rat(15), Rat(200), Rat(8)>>, <<Rat(0), Rat(200), Rat(1)>>}

DefaultVesting == <<<<1, <<1, 2>>>>, <<2, <<1, 4>>>>, <<3, <<3, 20>>>>>>

Vestings == {DefaultVesting, <<<<2, <<1, 2>>>>>>}

InitSimulate ==
    /\ price \in Prices
    /\ SHARES_OUT = SharesOut(price)
    /\ \E p \in Pricings :
          /\ price_monthly = p[1]
          /\ device_revenue = p[2]
          /\ valuation_multiple = p[3]
    /\ retain_rate \in Rates
    /\ vesting_dict \in Vestings
    /\ acquisitions \in Schedules
    /\ txt = <<>> /\ acq = <<>> /\ results = <<>> /\ pc = "direct"
    /\ df = <<>> /\ active = Rat(0) /\ cum_list = <<>> /\ it = 0
    /\ sim = "enter"

NextSimulate == SimEnter \/ SimLoop \/ SimColumns

SpecSimulate == InitSimulate /\ [][NextSimulate]_vars

\* ----------------------------------------------------------- parse_pairs
I(n) == [isint |-> TRUE, val |-> n]

X == [isint |-> FALSE, val |-> 0]

\* ":" in item
HasColon(item) == Len(item) >= 2

\* int(field.strip()) raises ValueError
IntRaises(f) == ~f.isint

Kept(s) == SelectSeq(s, HasColon)

ParseRaises(s) ==
    \E i \in 1..Len(s) :
        HasColon(s[i]) /\ (IntRaises(s[i][1]) \/ IntRaises(s[i][2]))

\* the dict comprehension: a repeated key keeps its place, takes the last value
RECURSIVE DictOf(_)
DictOf(items) ==
    IF items = <<>> THEN <<>>
    ELSE LET n == Len(items)
         IN DictPut(DictOf(SubSeq(items, 1, n - 1)),
                    items[n][1].val, items[n][2].val)

parse_pairs(s) == DictOf(Kept(s))

\* ------------------------------------------------------------ the script
ParseOrder == <<"Base", "Conservative", "Aggressive">>

SimOrder == <<"Conservative", "Base", "Aggressive">>

\* st.error(...); st.stop()
ParseStop ==
    /\ pc = "parse"
    /\ ParseRaises(txt[ParseOrder[Len(acq) + 1]])
    /\ pc' = "stopped"
    /\ UNCHANGED <<params, txt, acq, results, frame, sim>>

ParseOk ==
    /\ pc = "parse"
    /\ LET name == ParseOrder[Len(acq) + 1]
       IN /\ ~ParseRaises(txt[name])
          /\ acq' = Append(acq, <<name, parse_pairs(txt[name])>>)
    /\ pc' = IF Len(acq') = Len(ParseOrder) THEN "simulate" ELSE "parse"
    /\ UNCHANGED <<params, txt, results, frame, sim>>

\* results = {...}: the next simulate(acq_..., ...) call is entered
Call ==
    /\ pc = "simulate"
    /\ sim = "idle"
    /\ acquisitions' = Get(acq, SimOrder[Len(results) + 1])
    /\ sim' = "enter"
    /\ UNCHANGED <<params, script, df, active, cum_list, it>>

\* the returned frame is stored under the scenario's name
Return ==
    /\ pc = "simulate"
    /\ sim = "returned"
    /\ results' = Append(results, <<SimOrder[Len(results) + 1], df>>)
    /\ sim' = "idle"
    /\ pc' = IF Len(results') = Len(SimOrder) THEN "display" ELSE "simulate"
    /\ UNCHANGED <<params, txt, acq, frame>>

\* the texts of the three text areas, as split(",") and split(":") see them
ScenarioTexts ==
    { << <<X>> >>,                                   \* "" (or "abc")
      << <<I(1), I(1)>>, <<I(2), I(1)>> >>,          \* "1:1,2:1"
      << <<I(2), I(1)>>, <<I(1), I(1)>> >>,          \* "2:1,1:1"
      << <<I(1), I(1)>>, <<I(2), I(1)>>, <<I(3), I(1)>> >>,  \* "1:1,2:1,3:1"
      << <<I(1), I(1)>>, <<X>> >>,                   \* "1:1,abc"
      << <<I(1), I(0)>>, <<I(1), I(1)>> >>,          \* "1:0,1:1"
      << <<I(3), I(1), X>> >>,                       \* "3:1:x"
      << <<X, I(1)>> >>,                             \* "x:1"
      << <<I(1), I(1)>>, <<I(2), X>> >> }            \* "1:1,2:x"

\* the retention slider's range
SliderRates == {r \in Rates : RLeq(Rat(0), r) /\ RLeq(r, Rat(1))}

Init ==
    /\ price \in Prices
    /\ SHARES_OUT = SharesOut(price)
    /\ \E p \in Pricings :
          /\ price_monthly = p[1]
          /\ device_revenue = p[2]
          /\ valuation_multiple = p[3]
    /\ retain_rate \in SliderRates
    /\ vesting_dict = DefaultVesting
    /\ txt \in [Names -> ScenarioTexts]
    /\ acq = <<>> /\ results = <<>> /\ pc = "parse"
    /\ acquisitions = <<>> /\ df = <<>> /\ active = Rat(0)
    /\ cum_list = <<>> /\ it = 0
    /\ sim = "idle"

Next ==
    \/ ParseStop
    \/ ParseOk
    \/ Call
    \/ SimEnter
    \/ SimLoop
    \/ SimColumns
    \/ Return

Spec == Init /\ [][Next]_vars

\* ================================================================ claims

\* C1: for every schedule (any insertion order, gaps allowed) and every
\* retain_rate, the returned cum_users follow the sequential recurrence over
\* the rows in ascending year order: the first row's cum_users is its
\* new_users, and every later row's is its new_users plus retain_rate times
\* the previous listed row's cum_users, whatever the gap between the years.
C1_Recurrence ==
    sim = "returned" =>
        /\ Len(df) = Len(acquisitions)
        /\ \A i \in 1..Len(df) :
              /\ i > 1 => df[i - 1].Year < df[i].Year
              /\ df[i].Year \in Keys(acquisitions)
              /\ df[i].new_users = Get(acquisitions, df[i].Year)
              /\ df[i].cum_users =
                    RAdd(Rat(df[i].new_users),
                         IF i = 1 THEN Rat(0)
                         ELSE RMul(retain_rate, df[i - 1].cum_users))

\* a returned table of years 1 and 3 (a gap), inserted as 3 then 1, with
\* retention 1/2 carrying a non-zero first row into the second
C1_Witness ==
    /\ sim = "returned"
    /\ Len(df) = 2
    /\ acquisitions[1][1] = 3 /\ acquisitions[2][1] = 1
    /\ retain_rate = <<1, 2>>
    /\ df[1].cum_users = Rat(1)
    /\ df[2].cum_users = <<3, 2>>

\* C2: the returned table has exactly one row per key of the acquisitions
\* mapping and its rows are in strictly ascending year order, whatever the
\* insertion order of the keys.
C2_RowsMatchKeys ==
    sim = "returned" =>
        /\ Len(df) = Len(acquisitions)
        /\ {df[i].Year : i \in 1..Len(df)} = Keys(acquisitions)
        /\ \A i, j \in 1..Len(df) : i < j => df[i].Year < df[j].Year

\* a returned table of three rows whose keys were inserted in descending order
C2_Witness ==
    /\ sim = "returned"
    /\ Len(df) = 3
    /\ acquisitions[1][1] > acquisitions[2][1]
    /\ acquisitions[2][1] > acquisitions[3][1]

\* C3 as stated: with all new_users >= 0 and retain_rate >= 0, cum_users is
\* non-decreasing along the rows of the returned table.
C3_AsStated ==
    (/\ sim = "returned"
     /\ RLeq(Rat(0), retain_rate)
     /\ \A i \in 1..Len(df) : df[i].new_users >= 0)
    => \A i \in 2..Len(df) : RLeq(df[i - 1].cum_users, df[i].cum_users)

\* C3 amended: with all new_users >= 0 and retain_rate >= 0, cum_users is
\* non-decreasing along the rows provided that retain_rate >= 1 or new_users
\* is itself non-decreasing along the rows.
C3_Amended ==
    (/\ sim = "returned"
     /\ RLeq(Rat(0), retain_rate)
     /\ \A i \in 1..Len(df) : df[i].new_users >= 0
     /\ \/ RLeq(Rat(1), retain_rate)
        \/ \A i \in 2..Len(df) : df[i - 1].new_users <= df[i].new_users)
    => \A i \in 2..Len(df) : RLeq(df[i - 1].cum_users, df[i].cum_users)

\* three rows of one new user each under retention 1/2: 1, 3/2, 7/4
C3_Witness ==
    /\ sim = "returned"
    /\ Len(df) = 3
    /\ retain_rate = <<1, 2>>
    /\ \A i \in 1..3 : df[i].new_users = 1
    /\ df[3].cum_users = <<7, 4>>

\* C4: a projection never divides by a zero share count: with SHARES_OUT = 0
\* the call ends in a ConfigurationError instead of returning, so no row of
\* a returned table was divided by zero and none has an infinite or
\* undefined share_price.
C4_ZeroSharesRejected ==
    sim = "returned" =>
        \A i \in 1..Len(df) :
            SHARES_OUT # Rat(0) /\ IsFinite(df[i].share_price_usd)

\* C6: with retain_rate = 1 every row's cum_users is the sum of new_users
\* over that row and all rows of earlier years.
C6_CumulativeSum ==
    LET RECURSIVE SumUpTo(_, _)
        SumUpTo(k, y) ==
            IF k = 0 THEN 0
            ELSE SumUpTo(k - 1, y) +
                 (IF acquisitions[k][1] <= y THEN acquisitions[k][2] ELSE 0)
    IN (sim = "returned" /\ retain_rate = Rat(1)) =>
          \A i \in 1..Len(df) :
              df[i].cum_users = Rat(SumUpTo(Len(acquisitions), df[i].Year))

\* retention 1, three rows of one new user each, inserted out of order
C6_Witness ==
    /\ sim = "returned"
    /\ retain_rate = Rat(1)
    /\ Len(df) = 3
    /\ acquisitions[1][1] = 2
    /\ df[3].cum_users = Rat(3)

\* C7: a row whose year has no entry in the vesting mapping gets
\* vested_pct = 0 and equity_value = 0, and the call still returns; a row
\* whose year has an entry gets the mapped fraction and
\* equity_value = value_added * vested_pct.
C7_Vesting ==
    /\ sim = "returned" =>
          \A i \in 1..Len(df) :
              IF df[i].Year \in Keys(vesting_dict)
              THEN /\ df[i].vested_pct = Get(vesting_dict, df[i].Year)
                   /\ df[i].equity_value =
                         RMul(df[i].value_added, df[i].vested_pct)
              ELSE /\ df[i].vested_pct = Rat(0)
                   /\ df[i].equity_value = Rat(0)
    /\ sim \in {"idle", "enter", "loop", "returned"}

\* a returned table with one row outside the vesting mapping (non-zero
\* value_added, zero equity) and one row inside it (non-zero equity)
C7_Witness ==
    /\ sim = "returned"
    /\ \E i, j \in 1..Len(df) :
          /\ df[i].Year \notin Keys(vesting_dict)
          /\ df[i].value_added # Rat(0)
          /\ df[i].equity_value = Rat(0)
          /\ df[j].Year \in Keys(vesting_dict)
          /\ df[j].equity_value # Rat(0)

\* C8: with an empty acquisitions mapping the loop body never runs, no step
\* raises, and the call returns a table of zero rows.
C8_EmptySchedule ==
    acquisitions = <<>> =>
        /\ sim \in {"idle", "enter", "loop", "returned"}
        /\ it = 0
        /\ cum_list = <<>>
        /\ sim = "loop" => (~ENABLED SimLoop /\ ENABLED SimColumns)
        /\ sim = "returned" => df = <<>>

\* the call on the empty mapping has returned
C8_Witness ==
    /\ pc = "direct"
    /\ acquisitions = <<>>
    /\ sim = "returned"
    /\ Len(df) = 0

\* C10: market_cap of row i is the baseline plus the sum over rows 1..i of
\* cum_users * price_monthly * 12 * valuation_multiple
\* + new_users * device_revenue; with non-negative inputs it is
\* non-decreasing along the rows and never below the baseline.
C10_MarketCap ==
    LET va(j) == RAdd(RMul(RMul(RMul(df[j].cum_users, price_monthly), Rat(12)),
                           valuation_multiple),
                      RMul(Rat(df[j].new_users), device_revenue))
        RECURSIVE Sum(_)
        Sum(i) == IF i = 0 THEN Rat(0) ELSE RAdd(Sum(i - 1), va(i))
    IN sim = "returned" =>
          /\ \A i \in 1..Len(df) :
                df[i].market_cap_usd = RAdd(Rat(MARKET_CAP_USD), Sum(i))
          /\ (/\ RLeq(Rat(0), retain_rate)
              /\ RLeq(Rat(0), price_monthly)
              /\ RLeq(Rat(0), device_revenue)
              /\ RLeq(Rat(0), valuation_multiple)
              /\ \A i \in 1..Len(df) : df[i].new_users >= 0)
             => \A i \in 1..Len(df) :
                   RLeq(IF i = 1 THEN Rat(MARKET_CAP_USD)
                        ELSE df[i - 1].market_cap_usd,
                        df[i].market_cap_usd)

\* three rows, each adding value, under the default pricing and retention 1/2
C10_Witness ==
    /\ sim = "returned"
    /\ Len(df) = 3
    /\ retain_rate = <<1, 2>>
    /\ price_monthly = Rat(15)
    /\ \A i \in 1..3 : df[i].value_added # Rat(0)
    /\ df[3].market_cap_usd # df[2].market_cap_usd

\* C5: a text that is empty or holds an entry that is not a well-formed
\* year:count pair halts the script, so simulate is only ever entered for a
\* text all of whose entries are well-formed pairs, with a mapping that
\* holds one entry for every entry of the text.
C5_OnlyWellFormedTextsReachSimulate ==
    \A i \in 1..Len(SimOrder) :
        (\/ i <= Len(results)
         \/ (i = Len(results) + 1 /\ pc = "simulate" /\ sim # "idle"))
        => LET s == txt[SimOrder[i]]
           IN /\ \A k \in 1..Len(s) :
                    Len(s[k]) = 2 /\ s[k][1].isint /\ s[k][2].isint
              /\ Len(Get(acq, SimOrder[i])) = Len(s)

\* C9: simulate carries no state between calls: the accumulator and the
\* list are fresh when the loop starts, and scenarios whose acquisitions are
\* equal get equal tables, whatever was simulated before them.
C9_NoStateBetweenCalls ==
    /\ (sim = "loop" /\ it = 0) => (active = Rat(0) /\ cum_list = <<>>)
    /\ \A i, j \in 1..Len(results) :
          DictEq(Get(acq, results[i][1]), Get(acq, results[j][1]))
          => results[i][2] = results[j][2]

\* all three calls returned; the first and the third had equal mappings
\* (inserted in different orders), the second a different one that left a
\* non-zero accumulator behind, and retention was not zero
C9_Witness ==
    /\ pc = "display"
    /\ Len(results) = 3
    /\ retain_rate = <<1, 2>>
    /\ Get(acq, "Conservative") # Get(acq, "Aggressive")
    /\ DictEq(Get(acq, "Conservative"), Get(acq, "Aggressive"))
    /\ ~DictEq(Get(acq, "Conservative"), Get(acq, "Base"))
    /\ Len(results[2][2]) = 3
    /\ Len(results[3][2]) = 2
    /\ results[3][2][2].cum_users = <<3, 2>>

====
